---- MODULE Spec2Model ----
(***************************************************************************)
(* Model of src/api/mcp.js: the edge handler of the polymarket MCP server. *)
(*                                                                         *)
(* JavaScript values are drawn from a small universe of tagged strings:    *)
(*   "undef"  undefined          "null"   null                             *)
(*   "b:..."  booleans           "n:..."  numbers                          *)
(*   "s:..."  strings            "o:{}"   a plain object                   *)
(*   "o:bad"  an object parsed from JSON whose own "toString" and          *)
(*            "valueOf" members are not callable, e.g. {"toString":1,      *)
(*            "valueOf":1}; converting it to a string raises a TypeError.  *)
(* A text is a sequence of lines and a line is a sequence of strings, the  *)
(* pieces a template literal concatenates.                                 *)
(***************************************************************************)
EXTENDS Integers, Sequences, FiniteSets, TLC

\* ---------------------------------------------------------------- bounds
NConn == 2          \* /sse connections that may be open at once
MaxFrames == 3      \* frames recorded per stream

\* ------------------------------------------------------- JavaScript values
Undef == "undef"
Null == "null"
BadObj == "o:bad"

\* ToBoolean: the falsy values of the universe.
Truthy(v) == v \notin {"undef", "null", "b:false", "n:0", "s:"}

\* ToString raises a TypeError exactly on BadObj.
Stringable(v) == v # BadObj

\* ToString of a value of the universe (template literals, URLSearchParams).
JsToString(v) ==
    CASE v = "undef" -> "undefined"
      [] v = "null" -> "null"
      [] v = "b:false" -> "false"
      [] v = "b:true" -> "true"
      [] v = "n:0" -> "0"
      [] v = "n:3" -> "3"
      [] v = "n:5" -> "5"
      [] v = "n:7" -> "7"
      [] v = "s:" -> ""
      [] v = "s:m1" -> "m1"
      [] v = "s:get-market-info" -> "get-market-info"
      [] v = "s:list-markets" -> "list-markets"
      [] v = "s:get-market-prices" -> "get-market-prices"
      [] v = "s:nope" -> "nope"
      [] v = "s:initialize" -> "initialize"
      [] v = "s:tools/list" -> "tools/list"
      [] v = "s:tools/call" -> "tools/call"
      [] v = "s:prompts/list" -> "prompts/list"
      [] v = "s:foo/bar" -> "foo/bar"
      [] OTHER -> "[object Object]"

\* --------------------------------------------------------------- requests
\* url.pathname as its segments: /api/sse is <<"api", "sse">>, / is <<>>.
Paths == {<<>>, <<"sse">>, <<"messages">>, <<"api", "sse">>,
          <<"api", "messages">>, <<"sse", "x">>, <<"xsse">>}

\* String.prototype.endsWith("/" + seg) on a pathname.
EndsWith(path, seg) == Len(path) > 0 /\ path[Len(path)] = seg

\* params.arguments of a tools/call
NoArgs == [k |-> "undef", market_id |-> Undef, closed |-> Undef,
           limit |-> Undef, offset |-> Undef]
ArgShapes ==
    {NoArgs, [NoArgs EXCEPT !.k = "prim"]} \cup
    [k : {"obj"}, market_id : {Undef, "s:m1", BadObj},
     closed : {Undef, Null, "b:false", "b:true"},
     limit : {Undef, "n:0", "n:5"}, offset : {Undef, "n:0", "n:3"}]

\* message.params
NoParams == [k |-> "undef", name |-> Undef, arguments |-> NoArgs]
ToolNames == {"s:get-market-info", "s:list-markets", "s:get-market-prices"}
ParamShapes ==
    {NoParams, [NoParams EXCEPT !.k = "null"], [NoParams EXCEPT !.k = "prim"]} \cup
    [k : {"obj"}, name : ToolNames \cup {"s:nope", Undef, BadObj},
     arguments : ArgShapes]
FewParams ==
    {NoParams, [NoParams EXCEPT !.k = "null"],
     [k |-> "obj", name |-> "s:list-markets", arguments |-> NoArgs]}

\* The body of a POST: text that is not JSON, or a parsed JSON value.
Ids == {Undef, "n:7", "s:m1"}
KnownMethods == {"s:initialize", "s:tools/list", "s:tools/call", "s:prompts/list"}
MethodValues == KnownMethods \cup {"s:foo/bar", Undef, BadObj}
NoBody == [k |-> "none", id |-> Undef, method |-> Undef, params |-> NoParams]
Bodies ==
    {[NoBody EXCEPT !.k = "malformed"], [NoBody EXCEPT !.k = "null"],
     [NoBody EXCEPT !.k = "prim"]} \cup
    [k : {"obj"}, id : Ids, method : {"s:tools/call"}, params : ParamShapes] \cup
    [k : {"obj"}, id : Ids, method : MethodValues \ {"s:tools/call"},
     params : FewParams]

\* req.signal: absent, not yet aborted, or aborted before the handler runs.
Signals == {"none", "live", "aborted"}

\* Only a POST to a path ending in /messages has its body read; only a request
\* that opens a stream has its signal used.
RpcRequests ==
    [method : {"POST"}, path : {<<"api", "messages">>}, body : Bodies, signal : {"live"}]
SseRequests ==
    [method : {"GET", "POST"}, path : {<<"sse">>, <<"api", "sse">>},
     body : {NoBody}, signal : Signals]
OtherRequests ==
    [method : {"OPTIONS"}, path : Paths, body : {NoBody}, signal : {"live"}] \cup
    [method : {"GET"}, path : Paths \ {<<"sse">>, <<"api", "sse">>},
     body : {NoBody}, signal : {"live"}] \cup
    [method : {"POST"}, path : {<<>>, <<"sse", "x">>, <<"xsse">>},
     body : {NoBody}, signal : {"live"}]

\* Every method on every path; a POST to /messages carries one of a few bodies.
RouteBodies ==
    {[NoBody EXCEPT !.k = "malformed"]} \cup
    [k : {"obj"}, id : {"n:7"}, method : {"s:initialize", "s:foo/bar"}, params : {NoParams}] \cup
    [k : {"obj"}, id : {"n:7"}, method : {"s:tools/call"},
     params : [k : {"obj"}, name : {"s:list-markets", "s:nope"}, arguments : {NoArgs}]]
RouteRequests ==
    SseRequests \cup OtherRequests \cup
    [method : {"POST"}, path : {<<"messages">>, <<"api", "messages">>},
     body : RouteBodies, signal : {"live"}]

\* ------------------------------------------------------ upstream payloads
\* A field of an upstream record: absent, a number or a string.  Prices and
\* amounts are numbers; prices count ten-thousandths (6000 is 0.6) and have at
\* most three decimals.
Absent == [k |-> "undef", n |-> 0, s |-> ""]
Num(i) == [k |-> "num", n |-> i, s |-> ""]
Str(t) == [k |-> "str", n |-> 0, s |-> t]

\* ToBoolean of a field.
FieldTruthy(f) ==
    \/ f.k = "num" /\ f.n # 0
    \/ f.k = "str" /\ f.s # ""

OutcomeNames == {"Yes", "No"}
NoPrices == [o \in OutcomeNames |-> Absent]

\* outcomes: absent, an array of names, or (as the live API sends it) a string.
\* outcomeprices: absent or an object keyed by outcome name.
\* tokens: absent, an array of {outcome, price}, or a non-array object.
BaseMarket ==
    [question |-> Str("Q"), title |-> Absent, category |-> Str("Crypto"),
     closed |-> FALSE, end_date_iso |-> Absent, volume |-> Num(1234567),
     liquidity |-> Absent, description |-> Absent, condition_id |-> Absent,
     id |-> Str("42"),
     outcomes |-> [k |-> "undef", arr |-> <<>>],
     outcomeprices |-> [k |-> "undef", obj |-> NoPrices],
     tokens |-> [k |-> "undef", arr |-> <<>>]]

YesNo == [k |-> "arr", arr |-> <<"Yes", "No">>]
Prices(y, n) == [k |-> "obj", obj |-> [o \in OutcomeNames |-> IF o = "Yes" THEN y ELSE n]]

Markets ==
    {BaseMarket,
     [BaseMarket EXCEPT !.question = Absent, !.title = Str("T"), !.closed = TRUE,
                        !.volume = Absent, !.liquidity = Num(999)],
     [BaseMarket EXCEPT !.outcomes = YesNo, !.outcomeprices = Prices(Num(6000), Num(4000))],
     [BaseMarket EXCEPT !.outcomes = YesNo, !.outcomeprices = Prices(Num(6000), Absent)],
     [BaseMarket EXCEPT !.outcomes = YesNo, !.outcomeprices = Prices(Num(0), Str("0.4"))],
     [BaseMarket EXCEPT !.outcomes = YesNo],
     [BaseMarket EXCEPT !.outcomes = [k |-> "arr", arr |-> <<>>]],
     [BaseMarket EXCEPT !.outcomes = [k |-> "str", arr |-> <<>>],
                        !.outcomeprices = Prices(Num(6000), Num(4000))],
     [BaseMarket EXCEPT !.outcomeprices = Prices(Num(6000), Num(4000)),
                        !.tokens = [k |-> "arr", arr |->
                            <<[outcome |-> Str("Yes"), price |-> Num(6000)],
                              [outcome |-> Str("No"), price |-> Absent]>>]],
     [BaseMarket EXCEPT !.tokens = [k |-> "arr", arr |->
                            <<[outcome |-> Absent, price |-> Str("0.6")]>>]],
     [BaseMarket EXCEPT !.tokens = [k |-> "obj", arr |-> <<>>]]}

\* The parsed body of a 2xx upstream response: null, a number, one record or
\* an array of records.
NoData == [k |-> "null", obj |-> BaseMarket, arr |-> <<>>]
Payloads ==
    {NoData, [NoData EXCEPT !.k = "num"], [NoData EXCEPT !.k = "arr"]} \cup
    {[NoData EXCEPT !.k = "obj", !.obj = m] : m \in Markets} \cup
    {[NoData EXCEPT !.k = "arr", !.arr = <<BaseMarket>>],
     [NoData EXCEPT !.k = "arr",
                    !.arr = <<BaseMarket, [BaseMarket EXCEPT !.question = Absent,
                                                             !.id = Absent, !.closed = TRUE]>>]}

\* What one fetch can come to: the network fails, the status is not 2xx, the
\* body is not JSON, or a payload arrives.
NoReply == [k |-> "none", data |-> NoData]
Upstream ==
    {[NoReply EXCEPT !.k = "network"], [NoReply EXCEPT !.k = "status"],
     [NoReply EXCEPT !.k = "badjson"]} \cup
    {[k |-> "ok", data |-> d] : d \in Payloads}

\* ------------------------------------------------------------- formatting
Digit == <<"0", "1", "2", "3", "4", "5", "6", "7", "8", "9">>

\* Number.prototype.toString of a non-negative integer, digit by digit.
RECURSIVE IntStr(_)
IntStr(n) == IF n < 10 THEN <<Digit[n + 1]>> ELSE IntStr(n \div 10) \o <<Digit[(n % 10) + 1]>>

\* The last w digits of n, zero-padded.
RECURSIVE Padded(_, _)
Padded(n, w) == IF w = 0 THEN <<>> ELSE Padded(n \div 10, w - 1) \o <<Digit[(n % 10) + 1]>>

\* Number.prototype.toLocaleString of a non-negative integer: groups of three.
RECURSIVE Grouped(_)
Grouped(n) == IF n < 1000 THEN IntStr(n) ELSE Grouped(n \div 1000) \o <<",">> \o Padded(n % 1000, 3)

\* A sequence of digits without its trailing zeros.
RECURSIVE Trimmed(_)
Trimmed(ds) == IF ds # <<>> /\ ds[Len(ds)] = "0" THEN Trimmed(SubSeq(ds, 1, Len(ds) - 1)) ELSE ds

\* ToString of a price p (ten-thousandths): 6000 is "0.6", 10000 is "1".
PriceStr(p) ==
    IF p % 10000 = 0 THEN IntStr(p \div 10000)
    ELSE IntStr(p \div 10000) \o <<".">> \o Trimmed(Padded(p % 10000, 4))

\* price.toFixed(4) and (price * 100).toFixed(1).
ToFixed4(p) == IntStr(p \div 10000) \o <<".">> \o Padded(p % 10000, 4)
PercentFixed1(p) == IntStr(p \div 100) \o <<".">> \o Padded((p \div 10) % 10, 1)

\* `${f}` of a present field that is not a price.
Show(f) == IF f.k = "num" THEN IntStr(f.n) ELSE <<f.s>>

\* `${a || b || dflt}`
OrElse(a, b, dflt) == IF FieldTruthy(a) THEN Show(a) ELSE IF FieldTruthy(b) THEN Show(b) ELSE <<dflt>>

\* `$${(f || 0).toLocaleString()}`
Amount(f) == <<"$">> \o (IF ~FieldTruthy(f) THEN Grouped(0) ELSE IF f.k = "num" THEN Grouped(f.n) ELSE <<f.s>>)

\* `Status: ${closed ? 'Closed' : 'Open'}`
StatusOf(m) == IF m.closed THEN "Closed" ELSE "Open"

\* A truthy payload that is not a record (a number, an array) reads as a
\* record with every field undefined.
EmptyMarket ==
    [BaseMarket EXCEPT !.question = Absent, !.category = Absent, !.volume = Absent,
                       !.id = Absent]
AsRecord(data) == IF data.k = "obj" THEN data.obj ELSE EmptyMarket

\* -------------------------------------------------------- callPolymarketAPI
\* url.searchParams of the request: every parameter that is neither undefined
\* nor null, converted to a string, in insertion order.
RECURSIVE BuildQuery(_)
BuildQuery(params) ==
    IF params = <<>> THEN <<>>
    ELSE (IF Head(params)[2] \notin {Undef, Null}
          THEN <<<<Head(params)[1], JsToString(Head(params)[2])>>>> ELSE <<>>)
         \o BuildQuery(Tail(params))

\* What callPolymarketAPI comes to, given what the fetch came to: it returns
\* the parsed body, or throws (network failure, non-2xx status, body not JSON).
CallPolymarketAPI(up) ==
    CASE up.k = "network" -> [k |-> "throw", msg |-> <<"fetch failed">>, data |-> NoData]
      [] up.k = "status" ->
            [k |-> "throw", msg |-> <<"Polymarket API error: ", "404", " - ", "Not Found">>,
             data |-> NoData]
      [] up.k = "badjson" ->
            [k |-> "throw", msg |-> <<"Unexpected token < in JSON at position 0">>,
             data |-> NoData]
      [] OTHER -> [k |-> "return", msg |-> <<>>, data |-> up.data]

\* ------------------------------------------------------------- executeTool
Returned(text) == [threw |-> FALSE, text |-> text]
Thrown(msg) == [threw |-> TRUE, text |-> <<msg>>]

NotFoundText == <<<<"Market not found. Please check the market ID or slug.">>>>
NoMarketsText == <<<<"No markets found with the specified criteria.">>>>

\* data.outcomes.map(o => `${o}: $${data.outcomeprices[o] || 'N/A'}`).join(', ')
RECURSIVE OutcomePrices(_, _)
OutcomePrices(names, prices) ==
    IF names = <<>> THEN <<>>
    ELSE LET o == Head(names)
             p == prices[o]
             one == <<o, ": $">> \o
                    (IF ~FieldTruthy(p) THEN <<"N/A">>
                     ELSE IF p.k = "num" THEN PriceStr(p.n) ELSE <<p.s>>)
         IN  IF Tail(names) = <<>> THEN one
             ELSE one \o <<", ">> \o OutcomePrices(Tail(names), prices)

\* The "Outcome Prices" expression of get-market-info raises a TypeError when
\* outcomes is truthy but has no map method, or when outcomeprices is
\* undefined and there is an outcome to look up.
OutcomeLineThrows(m) ==
    \/ m.outcomes.k = "str"
    \/ m.outcomes.k = "arr" /\ m.outcomes.arr # <<>> /\ m.outcomeprices.k = "undef"

OutcomeLine(m) ==
    <<"Outcome Prices: ">> \o
    (IF m.outcomes.k = "undef" THEN <<"N/A">>
     ELSE OutcomePrices(m.outcomes.arr, m.outcomeprices.obj))

\* case "get-market-info", after the fetch
GetMarketInfo(api) ==
    IF api.k = "throw" THEN Thrown(api.msg)
    ELSE IF api.data.k = "null" THEN Returned(NotFoundText)
    ELSE LET m == AsRecord(api.data) IN
         IF OutcomeLineThrows(m)
         THEN Thrown(IF m.outcomes.k = "str"
                     THEN <<"data.outcomes.map is not a function">>
                     ELSE <<"Cannot read properties of undefined (reading '",
                            m.outcomes.arr[1], "')">>)
         ELSE Returned(<<
                <<"Title: ">> \o OrElse(m.question, m.title, "N/A"),
                <<"Category: ">> \o OrElse(m.category, Absent, "N/A"),
                <<"Status: ", StatusOf(m)>>,
                <<"End Date: ">> \o OrElse(m.end_date_iso, Absent, "N/A"),
                <<"Volume: ">> \o Amount(m.volume),
                <<"Liquidity: ">> \o Amount(m.liquidity),
                OutcomeLine(m),
                <<"Description: ">> \o OrElse(m.description, Absent, "No description available")>>)

\* data.forEach((market, index) => ...): six lines per market
RECURSIVE MarketEntries(_, _)
MarketEntries(arr, index) ==
    IF arr = <<>> THEN <<>>
    ELSE LET m == Head(arr) IN
         << IntStr(index) \o <<". ">> \o OrElse(m.question, m.title, "Untitled Market"),
            <<"   ID: ">> \o OrElse(m.condition_id, m.id, "N/A"),
            <<"   Status: ", StatusOf(m)>>,
            <<"   Volume: ">> \o Amount(m.volume),
            <<"   End Date: ">> \o OrElse(m.end_date_iso, Absent, "N/A"),
            <<"---">> >> \o MarketEntries(Tail(arr), index + 1)

\* case "list-markets", after the fetch
ListMarkets(api) ==
    IF api.k = "throw" THEN Thrown(api.msg)
    ELSE IF api.data.k = "null" \/ (api.data.k = "arr" /\ api.data.arr = <<>>)
         THEN Returned(NoMarketsText)
    ELSE IF api.data.k # "arr" THEN Thrown(<<"data.forEach is not a function">>)
    ELSE Returned(<< <<"Found ">> \o IntStr(Len(api.data.arr)) \o <<" markets:">>, <<>> >>
                  \o MarketEntries(api.data.arr, 1))

\* `${outcome}: $${price.toFixed(4)} (${(price * 100).toFixed(1)}%)`
PriceLine(label, p) == label \o <<": $">> \o ToFixed4(p) \o <<" (">> \o PercentFixed1(p) \o <<"%)">>

\* data.outcomes.forEach(...) with price = data.outcomeprices[outcome] || 0
RECURSIVE OutcomeLines(_, _)
OutcomeLines(names, prices) ==
    IF names = <<>> THEN <<>>
    ELSE <<PriceLine(<<Head(names)>>,
                     IF FieldTruthy(prices[Head(names)]) THEN prices[Head(names)].n ELSE 0)>>
         \o OutcomeLines(Tail(names), prices)

\* data.tokens.forEach(...) with price = token.price || 0
RECURSIVE TokenLines(_)
TokenLines(toks) ==
    IF toks = <<>> THEN <<>>
    ELSE <<PriceLine(IF Head(toks).outcome.k = "undef" THEN <<"undefined">>
                     ELSE Show(Head(toks).outcome),
                     IF FieldTruthy(Head(toks).price) THEN Head(toks).price.n ELSE 0)>>
         \o TokenLines(Tail(toks))

\* price.toFixed is not a function when the price is a (non-empty) string.
StringPrice(p) == p.k = "str" /\ p.s # ""

\* case "get-market-prices", after the fetch
GetMarketPrices(api) ==
    IF api.k = "throw" THEN Thrown(api.msg)
    ELSE IF api.data.k = "null" THEN Returned(NotFoundText)
    ELSE LET m == AsRecord(api.data)
             header == << <<"Market: ">> \o OrElse(m.question, m.title, "Unknown Market"), <<>> >>
         IN
         IF m.outcomes.k # "undef" /\ m.outcomeprices.k # "undef" THEN
            IF m.outcomes.k = "str" THEN Thrown(<<"data.outcomes.forEach is not a function">>)
            ELSE IF \E i \in 1..Len(m.outcomes.arr) : StringPrice(m.outcomeprices.obj[m.outcomes.arr[i]])
            THEN Thrown(<<"price.toFixed is not a function">>)
            ELSE Returned(header \o << <<"Current Prices:">> >>
                          \o OutcomeLines(m.outcomes.arr, m.outcomeprices.obj))
         ELSE IF m.tokens.k = "arr" THEN
            IF \E i \in 1..Len(m.tokens.arr) : StringPrice(m.tokens.arr[i].price)
            THEN Thrown(<<"price.toFixed is not a function">>)
            ELSE Returned(header \o << <<"Current Prices:">> >> \o TokenLines(m.tokens.arr))
         ELSE Returned(header \o << <<"No price data available for this market.">> >>)

\* limit and offset tested against undefined instead of for truthiness.
ListParamsDefined(args) ==
    (IF args.closed # Undef THEN << <<"closed", args.closed>> >> ELSE <<>>) \o
    (IF args.limit # Undef THEN << <<"limit", args.limit>> >> ELSE <<>>) \o
    (IF args.offset # Undef THEN << <<"offset", args.offset>> >> ELSE <<>>)

\* list-markets: the params object, as its members in insertion order.
ListParams(args) ==
    (IF args.closed # Undef THEN << <<"closed", args.closed>> >> ELSE <<>>) \o
    (IF Truthy(args.limit) THEN << <<"limit", args.limit>> >> ELSE <<>>) \o
    (IF Truthy(args.offset) THEN << <<"offset", args.offset>> >> ELSE <<>>)

\* executeTool up to its await: the fetch it issues, or the error it throws
\* before any fetch (unknown tool; market_id not convertible to a string).
NoFetch == [endpoint |-> <<>>, query |-> <<>>]
ToolStart(name, args) ==
    CASE name \in {"s:get-market-info", "s:get-market-prices"} ->
            IF ~Stringable(args.market_id)
            THEN [k |-> "throw", msg |-> <<"Cannot convert object to primitive value">>,
                  fetch |-> NoFetch]
            ELSE [k |-> "fetch", msg |-> <<>>,
                  fetch |-> [endpoint |-> <<"/markets/", JsToString(args.market_id)>>,
                             query |-> <<>>]]
      [] name = "s:list-markets" ->
            [k |-> "fetch", msg |-> <<>>,
             fetch |-> [endpoint |-> <<"/markets">>, query |-> BuildQuery(ListParams(args))]]
      [] OTHER -> [k |-> "throw", msg |-> <<"Unknown tool: ", JsToString(name)>>,
                   fetch |-> NoFetch]

\* executeTool after its await, given what the fetch came to.
ToolEnd(name, up) ==
    CASE name = "s:get-market-info" -> GetMarketInfo(CallPolymarketAPI(up))
      [] name = "s:list-markets" -> ListMarkets(CallPolymarketAPI(up))
      [] OTHER -> GetMarketPrices(CallPolymarketAPI(up))

\* executeTool without the "Error: " rendering of its catch block.
ExecuteToolTextBare(r) == r.text

\* catch (error) { return `Error: ${error.message}` }: executeTool's value.
ExecuteToolText(r) == IF r.threw THEN << <<"Error: ">> \o r.text[1] >> ELSE r.text

\* ------------------------------------------------------------------ state
VARIABLES
    req,      \* the request being handled, NoReq when there is none
    pc,       \* "idle", "fetching" (suspended at the await of fetch) or "done"
    resp,     \* the Response the handler returned, NoResp before it returns
    fetched,  \* the upstream fetches the handler issued for req
    reply,    \* what the awaited fetch came to, NoReply before it settles
    raised,   \* whether executeTool's catch block ran for req
    conn      \* the /sse streams: one record per connection

vars == <<req, pc, resp, fetched, reply, raised, conn>>

Conns == 1..NConn

NoReq == [method |-> "none", path |-> <<>>, body |-> NoBody, signal |-> "live"]
NoResp == [status |-> 0, kind |-> "none"]

\* ---------------------------------------------------------------- responses
\* JSON.stringify leaves out a member whose value is undefined, so a response
\* built from an undefined message.id has no id member.
Envelope(id) == IF id = Undef THEN [jsonrpc |-> "2.0"] ELSE [jsonrpc |-> "2.0", id |-> id]

Json(status, body) == [status |-> status, kind |-> "json", body |-> body]

\* The catch block of the /messages branch.
InternalError(cause) ==
    Json(500, [jsonrpc |-> "2.0",
               error |-> [code |-> -32603, message |-> <<"Internal error">>, data |-> cause]])

InitializeResult ==
    [protocolVersion |-> "0.1.0", capabilities |-> {"tools", "prompts"},
     serverInfo |-> [name |-> "polymarket-mcp", version |-> "1.0.0"]]
ToolsListResult == [tools |-> <<"get-market-info", "list-markets", "get-market-prices">>]
PromptsListResult == [prompts |-> <<>>]
ToolCallResult(text) == [content |-> <<[type |-> "text", text |-> text]>>]

\* A fixed message, without the method.
MethodNotFoundFixedMessage(method) ==
    [code |-> -32601, message |-> <<"Method not found">>]

\* default: of the method switch
MethodNotFound(method) ==
    [code |-> -32601, message |-> <<"Method not found: ", JsToString(method)>>]

\* An error response that also carries a null result.
WithErrorAndResult(msg, error) ==
    Json(200, Envelope(msg.id) @@ [error |-> error, result |-> Null])

WithResult(msg, result) == Json(200, Envelope(msg.id) @@ [result |-> result])
WithError(msg, error) == Json(200, Envelope(msg.id) @@ [error |-> error])

\* callRequest?.name: a missing params object no longer raises.
CallRequestOptionalChaining(params) == ~Stringable(params.name)

\* case "tools/call": reading callRequest.name raises a TypeError when params
\* is undefined or null, and so does logging a name that has no string form.
CallRequestThrows(params) == params.k \in {"undef", "null"} \/ ~Stringable(params.name)

\* The /messages branch up to its first suspension: the response it returns,
\* or the fetch executeTool issues.
Respond(r) == [k |-> "respond", resp |-> r, fetch |-> NoFetch, raised |-> FALSE]
MessagesStart(msg) ==
    CASE msg.k = "malformed" -> Respond(InternalError("SyntaxError"))
      [] msg.k = "null" -> Respond(InternalError("TypeError"))
      [] msg.method = "s:initialize" -> Respond(WithResult(msg, InitializeResult))
      [] msg.method = "s:tools/list" -> Respond(WithResult(msg, ToolsListResult))
      [] msg.method = "s:prompts/list" -> Respond(WithResult(msg, PromptsListResult))
      [] msg.method = "s:tools/call" ->
            IF CallRequestThrows(msg.params)
            THEN Respond(InternalError("TypeError"))
            ELSE LET start == ToolStart(msg.params.name, msg.params.arguments) IN
                 IF start.k = "throw"
                 THEN [Respond(WithResult(msg, ToolCallResult(ExecuteToolText(Thrown(start.msg)))))
                       EXCEPT !.raised = TRUE]
                 ELSE [k |-> "fetch", resp |-> NoResp, fetch |-> start.fetch, raised |-> FALSE]
      [] OTHER ->
            IF ~Stringable(msg.method) THEN Respond(InternalError("TypeError"))
            ELSE Respond(WithError(msg, MethodNotFound(msg.method)))

\* The /messages branch after the awaited fetch settled.
MessagesEnd(msg, up) ==
    WithResult(msg, ToolCallResult(ExecuteToolText(ToolEnd(msg.params.name, up))))

\* ------------------------------------------------------------------ routing
\* The /sse test moved in front of the OPTIONS test.
RouteSseFirst(r) ==
    IF EndsWith(r.path, "sse") THEN "sse"
    ELSE IF r.method = "OPTIONS" THEN "options"
    ELSE IF EndsWith(r.path, "messages") /\ r.method = "POST" THEN "messages"
    ELSE "banner"

\* The branch of handler a request takes, in the order of its if statements.
Route(r) ==
    IF r.method = "OPTIONS" THEN "options"
    ELSE IF EndsWith(r.path, "sse") THEN "sse"
    ELSE IF EndsWith(r.path, "messages") /\ r.method = "POST" THEN "messages"
    ELSE "banner"

\* ------------------------------------------------------------- /sse streams
NoConn == [status |-> "none", signal |-> "none", timer |-> FALSE,
           stream |-> "closed", frames |-> <<>>]

\* ReadableStream.start: the first frame, the interval timer, the abort
\* listener (which an already aborted signal never calls).
Start(signal) ==
    [status |-> "open", signal |-> signal, timer |-> TRUE, stream |-> "readable",
     frames |-> <<"connection.established">>]

\* keepAlive as one module-level variable: clearing it stops every stream.
ClearEveryInterval(cs, c) == [d \in DOMAIN cs |-> [cs[d] EXCEPT !.timer = FALSE]]

\* clearInterval(keepAlive) of connection c: keepAlive is a const of the
\* start call of that connection.
ClearInterval(cs, c) == [cs EXCEPT ![c].timer = FALSE]

\* controller.close() of connection c (a TypeError on a closed stream is
\* swallowed).
Close(cs, c) == [cs EXCEPT ![c].stream = "closed"]

\* controller.enqueue of a keep-alive frame on connection c
Enqueue(cs, c) == [cs EXCEPT ![c].frames = Append(@, ": keepalive")]

Free(c) == conn[c].status = "none" /\ \A d \in 1..(c - 1) : conn[d].status = "open"

Init ==
    /\ req = NoReq
    /\ pc = "idle"
    /\ resp = NoResp
    /\ fetched = <<>>
    /\ reply = NoReply
    /\ raised = FALSE
    /\ conn = [c \in Conns |-> NoConn]

\* ------------------------------------------------------------------ actions
HandleOptions(r) ==
    /\ Route(r) = "options"
    /\ resp' = [status |-> 200, kind |-> "empty"]
    /\ pc' = "done"
    /\ UNCHANGED <<fetched, raised, conn>>

HandleSse(r) ==
    /\ Route(r) = "sse"
    /\ \E c \in Conns :
          /\ Free(c)
          /\ conn' = [conn EXCEPT ![c] = Start(r.signal)]
    /\ resp' = [status |-> 200, kind |-> "stream"]
    /\ pc' = "done"
    /\ UNCHANGED <<fetched, raised>>

HandleMessages(r) ==
    /\ Route(r) = "messages"
    /\ LET m == MessagesStart(r.body) IN
          /\ resp' = m.resp
          /\ raised' = m.raised
          /\ pc' = IF m.k = "fetch" THEN "fetching" ELSE "done"
          /\ fetched' = IF m.k = "fetch" THEN <<m.fetch>> ELSE <<>>
    /\ UNCHANGED conn

HandleBanner(r) ==
    /\ Route(r) = "banner"
    /\ resp' = [status |-> 200, kind |-> "banner"]
    /\ pc' = "done"
    /\ UNCHANGED <<fetched, raised, conn>>

\* handler(req), up to its return or its first suspension
Handle(r) ==
    /\ pc = "idle"
    /\ req' = r
    /\ reply' = NoReply
    /\ \/ HandleOptions(r)
       \/ HandleSse(r)
       \/ HandleMessages(r)
       \/ HandleBanner(r)

\* The awaited fetch settles and handler runs on to its return.
Settle(up) ==
    /\ pc = "fetching"
    /\ reply' = up
    /\ raised' = ToolEnd(req.body.params.name, up).threw
    /\ resp' = MessagesEnd(req.body, up)
    /\ pc' = "done"
    /\ UNCHANGED <<req, fetched, conn>>

\* The runtime sends the returned Response; nothing of the request remains.
Deliver ==
    /\ pc = "done"
    /\ req' = NoReq
    /\ pc' = "idle"
    /\ resp' = NoResp
    /\ fetched' = <<>>
    /\ reply' = NoReply
    /\ raised' = FALSE
    /\ UNCHANGED conn

\* The interval callback of connection c: enqueue, and on a TypeError (the
\* stream is closed) clear the timer.
Tick(c) ==
    /\ conn[c].timer
    /\ \/ /\ conn[c].stream = "readable"
          /\ Len(conn[c].frames) < MaxFrames
          /\ conn' = Enqueue(conn, c)
       \/ /\ conn[c].stream = "closed"
          /\ conn' = ClearInterval(conn, c)
    /\ UNCHANGED <<req, pc, resp, fetched, reply, raised>>

\* The abort event of connection c's signal: the listener clears the timer
\* and closes the stream.
Abort(c) ==
    /\ conn[c].status = "open"
    /\ conn[c].signal = "live"
    /\ conn' = [Close(ClearInterval(conn, c), c) EXCEPT ![c].signal = "aborted"]
    /\ UNCHANGED <<req, pc, resp, fetched, reply, raised>>

\* The consumer of the Response body cancels the stream; later enqueues throw.
Cancel(c) ==
    /\ conn[c].status = "open"
    /\ conn[c].stream = "readable"
    /\ conn' = Close(conn, c)
    /\ UNCHANGED <<req, pc, resp, fetched, reply, raised>>

\* JSON-RPC requests to /messages and their upstream fetches.
Next ==
    \/ \E r \in RpcRequests : Handle(r)
    \/ \E up \in Upstream : Settle(up)
    \/ Deliver

Spec == Init /\ [][Next]_vars

\* Requests of every method to every path.
NextRoute ==
    \/ \E r \in RouteRequests : Handle(r)
    \/ \E up \in Upstream : Settle(up)
    \/ Deliver

SpecRoute == Init /\ [][NextRoute]_vars

\* The /sse streams over time.
NextSse ==
    \/ \E r \in SseRequests : Handle(r)
    \/ Deliver
    \/ \E c \in Conns : Tick(c)
    \/ \E c \in Conns : Abort(c)
    \/ \E c \in Conns : Cancel(c)

SpecSse == Init /\ [][NextSse]_vars

\* ------------------------------------------------------------------ claims
Done == pc = "done"
IsJson == Done /\ resp.kind = "json"
Has(f, key) == key \in DOMAIN f
Msg == req.body
IsToolCall == IsJson /\ Msg.k = "obj" /\ Msg.method = "s:tools/call"

\* The id of the request (a body that is not a JSON object has none) and the
\* id of the response.
RequestId == IF Msg.k = "obj" THEN Msg.id ELSE Undef
ResponseId == IF Has(resp.body, "id") THEN resp.body.id ELSE Undef

\* C1: every JSON-RPC response to a POST to /messages, on the 200 path and on
\* the 500 path alike, carries the id of its request.
C1_ResponseIdIsRequestId == IsJson => ResponseId = RequestId

\* executeTool was called for the request: params could be read and the tool
\* name logged.
ToolExecuted ==
    IsToolCall /\ Msg.params.k \in {"obj", "prim"} /\ Msg.params.name # BadObj
ToolText == resp.body.result.content[1].text

\* C2: a tools/call whose tool was executed is answered with HTTP 200 and a
\* result of exactly one text block and no error member, for every tool name
\* and every outcome of the upstream fetch; when the fetch fails, the tool is
\* unknown or the tool raises, the text begins with "Error:".
C2_ToolFailureInBand ==
    ToolExecuted =>
        /\ resp.status = 200
        /\ Has(resp.body, "result") /\ ~Has(resp.body, "error")
        /\ Len(resp.body.result.content) = 1
        /\ resp.body.result.content[1].type = "text"
        /\ (reply.k \in {"network", "status", "badjson"} \/ Msg.params.name \notin ToolNames
                => raised)
        /\ raised => ToolText[1][1] = "Error: "

C2_Witness ==
    /\ ToolExecuted
    /\ Msg.params.name = "s:get-market-info"
    /\ reply.k = "status"
    /\ ToolText[1][1] = "Error: "

IsInternalError ==
    /\ resp.status = 500
    /\ Has(resp.body, "error")
    /\ resp.body.error.code = -32603
    /\ resp.body.error.message = <<"Internal error">>
    /\ Has(resp.body.error, "data")

\* C3 as stated: HTTP 500 with error -32603 exactly when the body is not JSON;
\* every body that parses is answered with HTTP 200.
C3_Http500OnlyForMalformedJson ==
    IsJson => IF Msg.k = "malformed" THEN IsInternalError ELSE resp.status = 200

\* The parsed bodies on which the dispatcher itself raises.
DispatchRaises ==
    \/ Msg.k = "null"
    \/ /\ Msg.k = "obj"
       /\ \/ Msg.method = "s:tools/call" /\ Msg.params.k \in {"undef", "null"}
          \/ Msg.method = "s:tools/call" /\ Msg.params.name = BadObj
          \/ Msg.method = BadObj

\* C3, amended: HTTP 500 with error -32603 exactly when the body is not JSON or
\* the dispatcher raises on the parsed body (the body is null; tools/call with
\* params absent or null, or with a name that has no string form; a method
\* value that has no string form); every other body is answered with HTTP 200.
C3_Http500WhenParseOrDispatchFails ==
    IsJson => IF Msg.k = "malformed" \/ DispatchRaises THEN IsInternalError
              ELSE resp.status = 200

C3_Witness ==
    /\ IsToolCall
    /\ Msg.params.k = "undef"
    /\ IsInternalError

C5_ExactlyOneOfResultAndError ==
    IsJson => (Has(resp.body, "result") # Has(resp.body, "error"))

C5_Witness ==
    /\ IsJson
    /\ Msg.k = "malformed"
    /\ Has(resp.body, "error") /\ ~Has(resp.body, "result")

\* C6: routing is first match wins: OPTIONS on any path is the empty 200;
\* otherwise a path ending in /sse opens the stream for any method; otherwise
\* a POST to a path ending in /messages is dispatched as JSON-RPC; every other
\* request, a GET to /messages included, gets the 200 banner.
C6_Routing ==
    req # NoReq =>
        LET options == req.method = "OPTIONS"
            sse == ~options /\ EndsWith(req.path, "sse")
            rpc == ~options /\ ~sse /\ EndsWith(req.path, "messages") /\ req.method = "POST"
        IN  /\ options => resp = [status |-> 200, kind |-> "empty"]
            /\ sse => resp = [status |-> 200, kind |-> "stream"]
                      /\ \E c \in Conns : conn[c].status = "open"
            /\ rpc => pc = "fetching" \/ resp.kind = "json"
            /\ ~options /\ ~sse /\ ~rpc => resp = [status |-> 200, kind |-> "banner"]

C6_Witness ==
    /\ req.method = "OPTIONS"
    /\ req.path = <<"api", "sse">>
    /\ resp = [status |-> 200, kind |-> "empty"]
    /\ \A c \in Conns : conn[c].status = "none"

\* C7: the first frame of every stream is connection.established, and once the
\* signal of a connection has aborted, whenever that was, no frame is enqueued
\* on it any more.
C7_NoFrameAfterAbort ==
    /\ [](\A c \in Conns : conn[c].status = "open" =>
              conn[c].frames # <<>> /\ conn[c].frames[1] = "connection.established")
    /\ [][\A c \in Conns : conn[c].status = "open" /\ conn[c].signal = "aborted" =>
              conn'[c].frames = conn[c].frames]_vars

\* The query of the fetch list-markets issues, member by member.
ListArgs == Msg.params.arguments
ListFetched ==
    /\ req # NoReq /\ pc # "idle"
    /\ Msg.k = "obj" /\ Msg.method = "s:tools/call"
    /\ Msg.params.k = "obj" /\ Msg.params.name = "s:list-markets"
QueryOf(closedSent) ==
    (IF closedSent THEN << <<"closed", JsToString(ListArgs.closed)>> >> ELSE <<>>) \o
    (IF ListArgs.limit \notin {Undef, "n:0"}
     THEN << <<"limit", JsToString(ListArgs.limit)>> >> ELSE <<>>) \o
    (IF ListArgs.offset \notin {Undef, "n:0"}
     THEN << <<"offset", JsToString(ListArgs.offset)>> >> ELSE <<>>)

\* C8 as stated: the query of list-markets has, in this order, closed whenever
\* it is not undefined, and limit and offset when they are given and not 0.
C8_ClosedSentUnlessUndefined ==
    ListFetched =>
        /\ Len(fetched) = 1
        /\ fetched[1].endpoint = <<"/markets">>
        /\ fetched[1].query = QueryOf(ListArgs.closed # Undef)

\* C8, amended: closed is in the query whenever it is neither undefined nor
\* null (closed=false is sent, closed=null is not); limit and offset are sent
\* when they are given and not 0; nothing else is sent; the order is closed,
\* limit, offset.
C8_ClosedSentUnlessUndefinedOrNull ==
    ListFetched =>
        /\ Len(fetched) = 1
        /\ fetched[1].endpoint = <<"/markets">>
        /\ fetched[1].query = QueryOf(ListArgs.closed \notin {Undef, Null})

C8_Witness ==
    /\ ListFetched
    /\ ListArgs.closed = "b:false" /\ ListArgs.limit = "n:0" /\ ListArgs.offset = "n:3"
    /\ ListArgs.market_id = "s:m1"
    /\ fetched[1].query = << <<"closed", "false">>, <<"offset", "3">> >>

\* C9: a step that clears the timer of one connection or closes its stream
\* (its abort, a failed enqueue, a cancel) leaves every other connection as it
\* was: its timer set, its stream open, its frames.
C9_TimerOwnedByItsConnection ==
    [][\A c \in Conns :
          \/ conn[c].timer /\ ~conn'[c].timer
          \/ conn[c].stream = "readable" /\ conn'[c].stream = "closed"
          => \A d \in Conns \ {c} : conn'[d] = conn[d]]_vars

C9_Witness ==
    \E c, d \in Conns :
        /\ c # d
        /\ conn[c].signal = "aborted" /\ ~conn[c].timer /\ conn[c].stream = "closed"
        /\ Len(conn[c].frames) = 1
        /\ conn[d].timer /\ conn[d].stream = "readable" /\ Len(conn[d].frames) = MaxFrames

\* The "Outcome Prices" line the claim describes: every outcome with its price
\* from outcomeprices, "N/A" where no price is to be had.
RECURSIVE Joined(_, _)
Joined(names, m) ==
    IF names = <<>> THEN <<>>
    ELSE LET p == m.outcomeprices.obj[Head(names)]
             shown == IF m.outcomeprices.k = "undef" \/ ~FieldTruthy(p) THEN <<"N/A">>
                      ELSE IF p.k = "num" THEN PriceStr(p.n) ELSE <<p.s>>
         IN  <<Head(names), ": $">> \o shown \o
             (IF Tail(names) = <<>> THEN <<>> ELSE <<", ">> \o Joined(Tail(names), m))

\* C10: get-market-info on a record whose outcomes are present reports every
\* outcome with its price, "N/A" where there is none, whether or not
\* outcomeprices is present.
C10_OutcomePricesLine ==
    /\ ToolExecuted
    /\ Msg.params.name = "s:get-market-info"
    /\ reply.k = "ok" /\ reply.data.k = "obj" /\ reply.data.obj.outcomes.k = "arr"
    => /\ Len(ToolText) = 8
       /\ ToolText[7] = <<"Outcome Prices: ">> \o Joined(reply.data.obj.outcomes.arr, reply.data.obj)

\* Where outcomeprices is present, the line is as the claim describes it.
OutcomeLineWhenPricesPresent ==
    /\ ToolExecuted
    /\ Msg.params.name = "s:get-market-info"
    /\ reply.k = "ok" /\ reply.data.k = "obj" /\ reply.data.obj.outcomes.k = "arr"
    /\ reply.data.obj.outcomeprices.k = "obj"
    => /\ Len(ToolText) = 8
       /\ ToolText[7] = <<"Outcome Prices: ">> \o Joined(reply.data.obj.outcomes.arr, reply.data.obj)

====
